---- MODULE Spec2Model ----
(***************************************************************************)
(* A model of racoon-analyse-gps.py: one run of the script, from the       *)
(* __main__ block through main() to the process's exit.                    *)
(*                                                                         *)
(* Text is modelled at two levels.  File names are sequences of one-       *)
(* character strings, so that str.endswith, os.path.splitext and           *)
(* Path.name are computed on the characters.  Cell and token texts are     *)
(* TLA+ strings; the lexicon below gives, for each text of the bounded     *)
(* input alphabet, what scanning its characters yields.                    *)
(***************************************************************************)
EXTENDS Integers, Sequences, FiniteSets

VARIABLES
    argv,          \* sys.argv: the script name, then the arguments
    pick,          \* what askopenfilename returns if the dialog is shown
    disk,          \* the content of the input file: [waypoints, rows]
    pc,            \* position of the run
    dialog_shown,  \* whether the file-selection dialog was shown
    in_filename,   \* main's parameter
    stdout,        \* the messages printed, in order
    acc,           \* gpx_importer's local df while it loops
    df,            \* main's df
    df_night,      \* main's df_night
    df_day,        \* main's df_day
    plots,         \* the plt.plot calls made, in order
    mapfile,       \* the path handed to mplleaflet.show (<<>>: none written)
    status,        \* the process's exit status (-1: still running)
    fault,         \* the uncaught exception, if any
    trace          \* history: the stages entered, in order

vars == <<argv, pick, disk, pc, dialog_shown, in_filename, stdout, acc, df,
          df_night, df_day, plots, mapfile, status, fault, trace>>

(***************************************************************************)
(* Bounds of the model.                                                    *)
(***************************************************************************)
MaxRows == 2
MaxWaypoints == 2

(***************************************************************************)
(* Character sequences: file names.                                        *)
(***************************************************************************)
DotGpx == <<".", "g", "p", "x">>
DotTxt == <<".", "t", "x", "t">>
DotHtml == <<".", "h", "t", "m", "l">>
TempDir == <<"/", "t", "m", "p">>
ScriptName == <<"r">>

NameAGpx == <<"a", ".", "g", "p", "x">>
NameDirBTxt == <<"d", "/", "b", ".", "t", "x", "t">>
NameTrackCsv == <<"t", "r", "a", "c", "k", ".", "c", "s", "v">>
NameTrackGPX == <<"t", "r", "a", "c", "k", ".", "G", "P", "X">>
NameNoDot == <<"g", "p", "x">>
NameEmpty == <<>>

GpxNames == {NameAGpx}
TxtNames == {NameDirBTxt}
OtherNames == {NameTrackCsv, NameTrackGPX, NameNoDot, NameEmpty}
FileNames == GpxNames \cup TxtNames \cup OtherNames

\* str.endswith
endswith(s, suffix) ==
    /\ Len(s) >= Len(suffix)
    /\ SubSeq(s, Len(s) - Len(suffix) + 1, Len(s)) = suffix

\* str.rfind for one character, 1-based; 0 when absent
rfind(s, c) ==
    LET hits == {k \in 1..Len(s) : s[k] = c}
    IN  IF hits = {} THEN 0 ELSE CHOOSE k \in hits : \A j \in hits : j <= k

\* os.path.splitext: <<root, ext>>; leading dots of the last component are
\* not an extension
splitext(p) ==
    LET sepIndex == rfind(p, "/")
        dotIndex == rfind(p, ".")
    IN  IF /\ dotIndex > sepIndex
           /\ \E k \in (sepIndex + 1)..(dotIndex - 1) : p[k] # "."
        THEN <<SubSeq(p, 1, dotIndex - 1), SubSeq(p, dotIndex, Len(p))>>
        ELSE <<p, <<>> >>

\* pathlib.Path(p).name: the last component
PathName(p) == SubSeq(p, rfind(p, "/") + 1, Len(p))

\* os.path.join(a, b) for a relative b
PathJoin(a, b) == a \o <<"/">> \o b

(***************************************************************************)
(* The lexicon: the texts of the input alphabet and what their characters  *)
(* scan to.  A number text gives tenths; a date text gives its three       *)
(* fields in written order; a time text gives hours, minutes, seconds.     *)
(***************************************************************************)
DateTexts == {"01/02/2018", "13/02/2018", "02/13/2018"}
TimeTexts == {"10:00:00", "18:00:00", "14:30:00", "09:59:59"}
NumberTexts == {"10.5", "50.2", "0.0", "0"}

Fields(s) ==
    CASE s = "01/02/2018" -> <<1, 2, 2018>>
      [] s = "13/02/2018" -> <<13, 2, 2018>>
      [] s = "02/13/2018" -> <<2, 13, 2018>>
      [] s = "10:00:00" -> <<10, 0, 0>>
      [] s = "18:00:00" -> <<18, 0, 0>>
      [] s = "14:30:00" -> <<14, 30, 0>>
      [] s = "09:59:59" -> <<9, 59, 59>>
      [] OTHER -> <<0, 0, 0>>

Tenths(s) ==
    CASE s = "10.5" -> 105
      [] s = "50.2" -> 502
      [] OTHER -> 0

Kind(s) ==
    IF s \in DateTexts THEN "date"
    ELSE IF s \in TimeTexts THEN "time"
    ELSE IF s \in NumberTexts THEN "number"
    ELSE "word"

(***************************************************************************)
(* Calendar values.                                                        *)
(***************************************************************************)
Timestamp(y, mo, d, h, mi, s) ==
    [year |-> y, month |-> mo, day |-> d, hour |-> h, minute |-> mi, second |-> s]

NaT == Timestamp(0, 0, 0, 0, 0, 0)

\* datetime.time(hour=h)
TimeOfDay(h) == [hour |-> h, minute |-> 0, second |-> 0]

\* seconds since midnight of a timestamp or of a datetime.time
SecondsOfDay(t) == t.hour * 3600 + t.minute * 60 + t.second

\* The order in which a parser reads three numeric date fields: with
\* dayfirst the first field is the day whenever the second can be a month.
ResolveYmd(f, dayfirst) ==
    IF f[1] > 31
    THEN IF dayfirst /\ f[3] <= 12
         THEN [year |-> f[1], day |-> f[2], month |-> f[3]]
         ELSE [year |-> f[1], month |-> f[2], day |-> f[3]]
    ELSE IF f[1] > 12 \/ (dayfirst /\ f[2] <= 12)
         THEN [day |-> f[1], month |-> f[2], year |-> f[3]]
         ELSE [month |-> f[1], day |-> f[2], year |-> f[3]]

ValidYmd(r) == r.month \in 1..12 /\ r.day \in 1..31

\* dateutil.parser.parse(date + ' ' + time, dayfirst): [ok, value].  The
\* string parses when one part is a date and the other a time of day.
parse(date, time, dayfirst) ==
    LET parts == <<date, time>>
        kinds == {Kind(date), Kind(time)}
        d == IF Kind(date) = "date" THEN date ELSE time
        t == IF Kind(date) = "date" THEN time ELSE date
        ymd == ResolveYmd(Fields(d), dayfirst)
        hms == Fields(t)
    IN  IF kinds = {"date", "time"} /\ ValidYmd(ymd)
        THEN [ok |-> TRUE,
              value |-> Timestamp(ymd.year, ymd.month, ymd.day,
                                  hms[1], hms[2], hms[3])]
        ELSE [ok |-> FALSE, value |-> NaT]

(***************************************************************************)
(* Tables.  A DataFrame is its index labels, its column names and its rows *)
(* (each row a record over the column names), all in row order.            *)
(***************************************************************************)
DataFrame(index, columns, data) ==
    [index |-> index, columns |-> columns, data |-> data]

NoFrame == DataFrame(<<>>, <<>>, <<>>)

RangeIndex(n) == [k \in 1..n |-> k - 1]

\* The rows of a frame at the given positions (an increasing sequence)
take(frame, positions) ==
    DataFrame([k \in 1..Len(positions) |-> frame.index[positions[k]]],
              frame.columns,
              [k \in 1..Len(positions) |-> frame.data[positions[k]]])

\* The members of a set of row positions, increasing
Ascending(S) ==
    [k \in 1..Cardinality(S) |->
        CHOOSE x \in S : Cardinality({y \in S : y < x}) = k - 1]

\* DataFrame.append(row, ignore_index=True)
append(frame, row) ==
    DataFrame(RangeIndex(Len(frame.data) + 1), frame.columns,
              Append(frame.data, row))

\* df.set_index(keys=key, inplace=True): the column becomes the index
set_index(frame, key) ==
    DataFrame([k \in 1..Len(frame.data) |-> frame.data[k][key]],
              SelectSeq(frame.columns, LAMBDA c : c # key),
              [k \in 1..Len(frame.data) |->
                  [c \in DOMAIN frame.data[k] \ {key} |-> frame.data[k][c]]])

\* DatetimeIndex.indexer_between_time(start, end, include_start=True,
\* include_end=True): both ends are included; a start after the end wraps
\* around midnight
indexer_between_time(index, start_time, end_time) ==
    LET s == SecondsOfDay(start_time)
        e == SecondsOfDay(end_time)
        mask(k) == IF s <= e
                   THEN s <= SecondsOfDay(index[k]) /\ SecondsOfDay(index[k]) <= e
                   ELSE s <= SecondsOfDay(index[k]) \/ SecondsOfDay(index[k]) <= e
    IN  Ascending({k \in 1..Len(index) : mask(k)})

\* df.between_time(start, end)
between_time(frame, start_time, end_time) ==
    take(frame, indexer_between_time(frame.index, start_time, end_time))

\* One column of a frame, in row order
Column(frame, c) == [k \in 1..Len(frame.data) |-> frame.data[k][c]]

(***************************************************************************)
(* The timestamp parser and the track-log importer.  A comment is the      *)
(* sequence of its fields between single blanks: a run of blanks shows as  *)
(* empty fields.  A waypoint is [longitude, latitude, elevation, comment]. *)
(***************************************************************************)
\* str.split(): the fields between runs of whitespace
split(comment) == SelectSeq(comment, LAMBDA f : f # "")

Returned(v) == [ok |-> TRUE, value |-> v, error |-> "none"]
Raised(e) == [ok |-> FALSE, value |-> NaT, error |-> e]

\* tokens[2] and tokens[4] are the 3rd and the 5th token
DateTokenIndex == 2
TimeTokenIndex == 4

\* Variant: a comment with too few tokens yields no time instead of raising
convert_comment_to_datetime_lenient(comment) ==
    LET tokens == split(comment)
    IN  IF Len(tokens) <= DateTokenIndex \/ Len(tokens) <= TimeTokenIndex
        THEN Returned(NaT)
        ELSE LET dt == parse(tokens[DateTokenIndex + 1],
                             tokens[TimeTokenIndex + 1], TRUE)
             IN  IF dt.ok THEN Returned(dt.value) ELSE Raised("ValueError")

convert_comment_to_datetime(comment) ==
    LET tokens == split(comment)
    IN  IF Len(tokens) <= DateTokenIndex \/ Len(tokens) <= TimeTokenIndex
        THEN Raised("IndexError")
        ELSE LET dt == parse(tokens[DateTokenIndex + 1],
                             tokens[TimeTokenIndex + 1], TRUE)
             IN  IF dt.ok THEN Returned(dt.value) ELSE Raised("ValueError")

GpxColumns == <<"lon", "lat", "alt", "time">>

\* Variant: longitude and latitude exchanged
GpxRow_swapped(point, time) ==
    [lon |-> point.latitude, lat |-> point.longitude,
     alt |-> point.elevation, time |-> time]

\* The row gpx_importer appends for a waypoint whose comment gave `time`
GpxRow(point, time) ==
    [lon |-> point.longitude, lat |-> point.latitude,
     alt |-> point.elevation, time |-> time]

(***************************************************************************)
(* The delimited-text importer.  A file is a sequence of rows, a row a     *)
(* sequence of seven cell texts (column positions 0 to 6).                 *)
(***************************************************************************)
TxtNames4 == <<"date", "time", "lon", "lat">>
UseCols == <<2, 4, 5, 6>>

\* na_values=[0.0]: the texts read_csv takes for the value 0.0
NaValues == {"0.0", "0"}

\* read_csv's default missing-value markers (keep_default_na)
DefaultNaValues ==
    {"", "#N/A", "#N/A N/A", "#NA", "-1.#IND", "-1.#QNAN", "-NaN", "-nan",
     "1.#IND", "1.#QNAN", "N/A", "NA", "NULL", "NaN", "n/a", "nan", "null"}

IsNa(text) == text \in NaValues \cup DefaultNaValues

\* The cell at a 0-based column position
Col(row, position) == row[position + 1]

\* pd.read_csv(header=None, names, usecols, na_values): the used columns in
\* file order, labelled by names; each cell is its text and whether it is NA
read_csv(rows, names, usecols) ==
    LET cols == Ascending({usecols[k] : k \in 1..Len(usecols)})
        cell(text) == [na |-> IsNa(text), text |-> text]
        record(row) ==
            [c \in {names[k] : k \in 1..Len(names)} |->
                cell(Col(row, cols[CHOOSE k \in 1..Len(names) : names[k] = c]))]
    IN  DataFrame(RangeIndex(Len(rows)), names,
                  [k \in 1..Len(rows) |-> record(rows[k])])

\* Variant: dropna(how='all'), which drops only the rows that are all NA
dropna_all(frame) ==
    take(frame,
         Ascending({k \in 1..Len(frame.data) :
                       \E c \in DOMAIN frame.data[k] : ~frame.data[k][c].na}))

\* df.dropna(): drop every row with an NA in some column; labels are kept
dropna(frame) ==
    take(frame,
         Ascending({k \in 1..Len(frame.data) :
                       \A c \in DOMAIN frame.data[k] : ~frame.data[k][c].na}))

\* Variant: pd.to_datetime(text) without dayfirst
to_datetime_monthfirst(cell) ==
    LET ymd == ResolveYmd(Fields(cell.text), FALSE)
    IN  IF cell.na THEN Returned(NaT)
        ELSE IF Kind(cell.text) = "date" /\ ValidYmd(ymd)
        THEN Returned(Timestamp(ymd.year, ymd.month, ymd.day, 0, 0, 0))
        ELSE Raised("ValueError")

\* pd.to_datetime(text, dayfirst=True) for one cell
to_datetime(cell) ==
    LET ymd == ResolveYmd(Fields(cell.text), TRUE)
    IN  IF cell.na THEN Returned(NaT)
        ELSE IF Kind(cell.text) = "date" /\ ValidYmd(ymd)
        THEN Returned(Timestamp(ymd.year, ymd.month, ymd.day, 0, 0, 0))
        ELSE Raised("ValueError")

\* pd.to_timedelta(text) for one cell, in seconds
to_timedelta(cell) ==
    LET hms == Fields(cell.text)
    IN  IF cell.na THEN [ok |-> TRUE, value |-> 0, error |-> "none"]
        ELSE IF Kind(cell.text) = "time"
        THEN [ok |-> TRUE, value |-> hms[1] * 3600 + hms[2] * 60 + hms[3],
              error |-> "none"]
        ELSE [ok |-> FALSE, value |-> 0, error |-> "ValueError"]

\* Timestamp + Timedelta (whole days carry into the day of the month)
AddTimedelta(ts, seconds) ==
    LET total == SecondsOfDay(ts) + seconds
        tod == total % 86400
    IN  Timestamp(ts.year, ts.month, ts.day + total \div 86400,
                  tod \div 3600, (tod % 3600) \div 60, tod % 60)

\* The columns of the table txt_importer returns: df['time'] is overwritten
\* by date + time, and no column is removed
TxtColumns == TxtNames4

\* Variant: the date column is dropped once it is combined
TxtRow_nodate(date, timedelta, lon, lat) ==
    [time |-> AddTimedelta(date, timedelta), lon |-> lon, lat |-> lat]

\* A row of the returned table: df['date'] is the parsed date, df['time']
\* is replaced by date + time, lon and lat are as read
TxtRow(date, timedelta, lon, lat) ==
    [date |-> date, time |-> AddTimedelta(date, timedelta), lon |-> lon, lat |-> lat]

\* txt_importer: [ok, df, error]
txt_importer(rows) ==
    LET kept == dropna(read_csv(rows, TxtNames4, UseCols))
        n == Len(kept.data)
        date(k) == to_datetime(kept.data[k].date)
        time(k) == to_timedelta(kept.data[k].time)
        row(k) == TxtRow(date(k).value, time(k).value,
                         Tenths(kept.data[k].lon.text),
                         Tenths(kept.data[k].lat.text))
    IN  IF \E k \in 1..n : ~date(k).ok \/ ~time(k).ok
        THEN [ok |-> FALSE, df |-> NoFrame, error |-> "ValueError"]
        ELSE [ok |-> TRUE,
              df |-> DataFrame(kept.index, TxtColumns, [k \in 1..n |-> row(k)]),
              error |-> "none"]

(***************************************************************************)
(* The inputs of a run: the command line, the dialog's answer and the      *)
(* content of the input file.                                              *)
(***************************************************************************)
SeqsUpTo(S, n) == UNION {[1..k -> S] : k \in 0..n}

Comment(time) == <<"Recorded", "at", "01/02/2018", "at", time, "by", "device">>

Comments ==
    {Comment(t) : t \in TimeTexts} \cup
    {<<"Logged", "on", "13/02/2018", "time", "14:30:00">>,
     <<"Recorded", "", "at", "01/02/2018", "", "at", "10:00:00">>,
     <<"01/02/2018", "14:30:00">>,
     <<"Recorded", "at", "01/02/2018", "14:30:00">>,
     <<"Recorded", "at", "device", "at", "14:30:00">>,
     <<"Recorded", "at", "01/02/2018", "at", "device">>}

Waypoints ==
    {[longitude |-> c[1], latitude |-> c[2], elevation |-> c[3], comment |-> m] :
        c \in {<<105, 502, 300>>, <<0, 0, 0>>}, m \in Comments}

Rows ==
    {<<"x", "x", d, "x", t, lon, lat>> :
        d \in {"01/02/2018", "0.0"}, t \in {"14:30:00", "10:00:00", "0.0"},
        lon \in {"10.5", "0.0"}, lat \in {"50.2", "0.0"}} \cup
    {<<"0.0", "", "01/02/2018", "0", "14:30:00", "10.5", "50.2">>,
     <<"x", "x", "01/02/2018", "x", "14:30:00", "", "50.2">>,
     <<"x", "x", "01/02/2018", "x", "14:30:00", "10.5", "0">>,
     <<"x", "x", "13/02/2018", "x", "18:00:00", "10.5", "50.2">>,
     <<"x", "x", "02/13/2018", "x", "09:59:59", "10.5", "50.2">>,
     <<"x", "x", "x", "x", "14:30:00", "10.5", "50.2">>}

GpxDisks == {[waypoints |-> w, rows |-> <<>>] : w \in SeqsUpTo(Waypoints, MaxWaypoints)}
TxtDisks == {[waypoints |-> <<>>, rows |-> r] : r \in SeqsUpTo(Rows, MaxRows)}
NoDisk == [waypoints |-> <<>>, rows |-> <<>>]

DisksFor(name) ==
    IF name \in GpxNames THEN GpxDisks
    ELSE IF name \in TxtNames THEN TxtDisks
    ELSE {NoDisk}

Init ==
    /\ argv \in {<<ScriptName>>} \cup {<<ScriptName, f>> : f \in FileNames}
    /\ pick \in IF Len(argv) < 2 THEN FileNames ELSE {NameEmpty}
    /\ disk \in DisksFor(IF Len(argv) < 2 THEN pick ELSE argv[2])
    /\ pc = "start"
    /\ dialog_shown = FALSE
    /\ in_filename = <<>>
    /\ stdout = <<>>
    /\ acc = NoFrame
    /\ df = NoFrame
    /\ df_night = NoFrame
    /\ df_day = NoFrame
    /\ plots = <<>>
    /\ mapfile = <<>>
    /\ status = -1
    /\ fault = [error |-> "none", at |-> 0]
    /\ trace = <<>>

(***************************************************************************)
(* The __main__ block.                                                     *)
(***************************************************************************)
\* Variant: the dialog is shown whether or not an argument is given
NeedsDialog_always(args) == Len(args) < 3

\* len(sys.argv) < 2
NeedsDialog(args) == Len(args) < 2

Banner == [text |-> "racoon-analyse-gps {}", arg |-> <<"0.1.1">>]

Start ==
    /\ pc = "start"
    /\ stdout' = Append(stdout, Banner)
    /\ dialog_shown' = NeedsDialog(argv)
    /\ in_filename' = IF NeedsDialog(argv) THEN pick ELSE argv[2]
    /\ pc' = "main"
    /\ UNCHANGED <<argv, pick, disk, acc, df, df_night, df_day, plots, mapfile,
                   status, fault, trace>>

(***************************************************************************)
(* main.                                                                   *)
(***************************************************************************)
\* str.lower for the letters of the suffixes
Lower(name) ==
    [k \in 1..Len(name) |->
        CASE name[k] = "G" -> "g"
          [] name[k] = "P" -> "p"
          [] name[k] = "X" -> "x"
          [] name[k] = "T" -> "t"
          [] OTHER -> name[k]]

\* Variant: the suffix is matched without regard to case
ImporterFor_caseless(name) ==
    IF endswith(Lower(name), DotGpx) THEN "gpx_importer"
    ELSE IF endswith(Lower(name), DotTxt) THEN "txt_importer"
    ELSE "none"

\* The if/elif/else on the file name's suffix
ImporterFor(name) ==
    IF endswith(name, DotGpx) THEN "gpx_importer"
    ELSE IF endswith(name, DotTxt) THEN "txt_importer"
    ELSE "none"

NoImporter ==
    /\ pc = "main"
    /\ ImporterFor(in_filename) = "none"
    /\ stdout' = Append(stdout, [text |-> "Error: No importer for filetype \"{}\"",
                                 arg |-> splitext(in_filename)])
    /\ status' = 2
    /\ pc' = "exit"
    /\ UNCHANGED <<argv, pick, disk, dialog_shown, in_filename, acc, df, df_night,
                   df_day, plots, mapfile, fault, trace>>

\* gpx_importer is entered: the file is parsed and df starts empty
GpxOpen ==
    /\ pc = "main"
    /\ ImporterFor(in_filename) = "gpx_importer"
    /\ acc' = DataFrame(<<>>, GpxColumns, <<>>)
    /\ trace' = Append(trace, "gpx_importer")
    /\ pc' = "gpx_loop"
    /\ UNCHANGED <<argv, pick, disk, dialog_shown, in_filename, stdout, df, df_night,
                   df_day, plots, mapfile, status, fault>>

\* One iteration of the loop over gpx.waypoints
GpxAppend ==
    /\ pc = "gpx_loop"
    /\ Len(acc.data) < Len(disk.waypoints)
    /\ LET point == disk.waypoints[Len(acc.data) + 1]
           dt == convert_comment_to_datetime(point.comment)
       IN  /\ dt.ok
           /\ acc' = append(acc, GpxRow(point, dt.value))
    /\ UNCHANGED <<argv, pick, disk, pc, dialog_shown, in_filename, stdout, df,
                   df_night, df_day, plots, mapfile, status, fault, trace>>

\* The iteration whose comment does not convert: the exception is not caught
GpxRaise ==
    /\ pc = "gpx_loop"
    /\ Len(acc.data) < Len(disk.waypoints)
    /\ LET point == disk.waypoints[Len(acc.data) + 1]
           dt == convert_comment_to_datetime(point.comment)
       IN  /\ ~dt.ok
           /\ fault' = [error |-> dt.error, at |-> Len(acc.data) + 1]
    /\ status' = 1
    /\ pc' = "exit"
    /\ UNCHANGED <<argv, pick, disk, dialog_shown, in_filename, stdout, acc, df,
                   df_night, df_day, plots, mapfile, trace>>

\* return df
GpxReturn ==
    /\ pc = "gpx_loop"
    /\ Len(acc.data) = Len(disk.waypoints)
    /\ df' = acc
    /\ pc' = "imported"
    /\ UNCHANGED <<argv, pick, disk, dialog_shown, in_filename, stdout, acc, df_night,
                   df_day, plots, mapfile, status, fault, trace>>

TxtImport ==
    /\ pc = "main"
    /\ ImporterFor(in_filename) = "txt_importer"
    /\ txt_importer(disk.rows).ok
    /\ df' = txt_importer(disk.rows).df
    /\ trace' = Append(trace, "txt_importer")
    /\ pc' = "imported"
    /\ UNCHANGED <<argv, pick, disk, dialog_shown, in_filename, stdout, acc, df_night,
                   df_day, plots, mapfile, status, fault>>

TxtRaise ==
    /\ pc = "main"
    /\ ImporterFor(in_filename) = "txt_importer"
    /\ ~txt_importer(disk.rows).ok
    /\ fault' = [error |-> txt_importer(disk.rows).error, at |-> 0]
    /\ trace' = Append(trace, "txt_importer")
    /\ status' = 1
    /\ pc' = "exit"
    /\ UNCHANGED <<argv, pick, disk, dialog_shown, in_filename, stdout, acc, df,
                   df_night, df_day, plots, mapfile>>

\* df['time'] = pd.DatetimeIndex(df['time']); df.set_index(keys='time')
SetIndex ==
    /\ pc = "imported"
    /\ df' = set_index(df, "time")
    /\ trace' = Append(trace, "set_index")
    /\ pc' = "indexed"
    /\ UNCHANGED <<argv, pick, disk, dialog_shown, in_filename, stdout, acc, df_night,
                   df_day, plots, mapfile, status, fault>>

Plot(frame, fmt, alpha) ==
    [x |-> Column(frame, "lon"), y |-> Column(frame, "lat"), fmt |-> fmt,
     alpha |-> alpha]

\* df.between_time(datetime.time(hour=18), datetime.time(hour=10))
NightOf(frame) == between_time(frame, TimeOfDay(18), TimeOfDay(10))

\* df.between_time(datetime.time(hour=10), datetime.time(hour=18))
DayOf(frame) == between_time(frame, TimeOfDay(10), TimeOfDay(18))

\* The night subset and its plot: blue squares, alpha 0.1 (in tenths)
Night ==
    /\ pc = "indexed"
    /\ df_night' = NightOf(df)
    /\ plots' = Append(plots, Plot(NightOf(df), "bs", 1))
    /\ trace' = trace \o <<"between_time_night", "plot_night">>
    /\ pc' = "night_plotted"
    /\ UNCHANGED <<argv, pick, disk, dialog_shown, in_filename, stdout, acc, df,
                   df_day, mapfile, status, fault>>

\* The day subset and its plot: red squares, alpha 0.5 (in tenths)
Day ==
    /\ pc = "night_plotted"
    /\ df_day' = DayOf(df)
    /\ plots' = Append(plots, Plot(DayOf(df), "rs", 5))
    /\ trace' = trace \o <<"between_time_day", "plot_day">>
    /\ pc' = "day_plotted"
    /\ UNCHANGED <<argv, pick, disk, dialog_shown, in_filename, stdout, acc, df,
                   df_night, mapfile, status, fault>>

\* Variant: the whole path, not its last component, names the map
MapFileFor_fullpath(name) == PathJoin(TempDir, name \o DotHtml)

\* The path of the map: <temporary directory>/<file name>.html
MapFileFor(name) == PathJoin(TempDir, PathName(name) \o DotHtml)

\* mplleaflet.show(path=mapfile)
Show ==
    /\ pc = "day_plotted"
    /\ mapfile' = MapFileFor(in_filename)
    /\ trace' = Append(trace, "show")
    /\ pc' = "shown"
    /\ UNCHANGED <<argv, pick, disk, dialog_shown, in_filename, stdout, acc, df,
                   df_night, df_day, plots, status, fault>>

\* main returns and the script ends
Finish ==
    /\ pc = "shown"
    /\ status' = 0
    /\ pc' = "exit"
    /\ UNCHANGED <<argv, pick, disk, dialog_shown, in_filename, stdout, acc, df,
                   df_night, df_day, plots, mapfile, fault, trace>>

Next ==
    \/ Start
    \/ NoImporter
    \/ GpxOpen
    \/ GpxAppend
    \/ GpxRaise
    \/ GpxReturn
    \/ TxtImport
    \/ TxtRaise
    \/ SetIndex
    \/ Night
    \/ Day
    \/ Show
    \/ Finish

Spec == Init /\ [][Next]_vars

(***************************************************************************)
(* Properties.                                                             *)
(***************************************************************************)
\* The run has classified its table into the night and the day subset
Classified == pc \in {"day_plotted", "shown"} \/ (pc = "exit" /\ status = 0)

\* How many rows of a frame carry this label and this content
Occurrences(frame, label, row) ==
    Cardinality({k \in 1..Len(frame.data) :
                    frame.index[k] = label /\ frame.data[k] = row})

InFrame(frame, label, row) == Occurrences(frame, label, row) > 0

\* 10:00:00 <= t < 18:00:00, in seconds since midnight
InDayWindow(t) == 10 * 3600 <= SecondsOfDay(t) /\ SecondsOfDay(t) < 18 * 3600

\* C1: the day subset and the night subset are disjoint and together are the
\* imported table: every record lands in exactly one of the two.
C1_DayNightPartition ==
    Classified =>
        /\ Len(df_night.data) + Len(df_day.data) = Len(df.data)
        /\ \A k \in 1..Len(df.data) :
              Occurrences(df_night, df.index[k], df.data[k])
            + Occurrences(df_day, df.index[k], df.data[k])
            = Occurrences(df, df.index[k], df.data[k])

\* C2: a record is in the day subset iff its time of day t satisfies
\* 10:00:00 <= t < 18:00:00, and in the night subset iff it does not.
C2_HalfOpenWindow ==
    Classified =>
        \A k \in 1..Len(df.data) :
            /\ InFrame(df_day, df.index[k], df.data[k]) <=> InDayWindow(df.index[k])
            /\ InFrame(df_night, df.index[k], df.data[k]) <=> ~InDayWindow(df.index[k])

\* Nothing of the import, the classification or the rendering has happened
NothingDone ==
    /\ trace = <<>>
    /\ acc = NoFrame /\ df = NoFrame /\ df_night = NoFrame /\ df_day = NoFrame
    /\ plots = <<>>
    /\ mapfile = <<>>

Unsupported(name) == ~endswith(name, DotGpx) /\ ~endswith(name, DotTxt)

\* C3: with a suffix that is neither exactly .gpx nor exactly .txt the run
\* prints a message naming the extension and exits with status 2; no
\* importer, classifier or renderer is invoked and no file is written.
C3_UnsupportedSuffix ==
    (pc # "start" /\ Unsupported(in_filename)) =>
        /\ NothingDone
        /\ pc \in {"main", "exit"}
        /\ pc = "main" => status = -1 /\ ENABLED NoImporter
        /\ pc = "exit" =>
              /\ status = 2
              /\ Len(stdout) = 2
              /\ stdout[2].arg[1] \o stdout[2].arg[2] = in_filename
              /\ in_filename = NameTrackCsv => stdout[2].arg[2] = <<".", "c", "s", "v">>
              /\ in_filename = NameTrackGPX => stdout[2].arg[2] = <<".", "G", "P", "X">>

C3_Witness ==
    pc = "exit" /\ in_filename = NameTrackGPX /\ status = 2 /\ Len(stdout) = 2

\* The delimited-text importer has returned its table to main
TxtImported == pc = "imported" /\ trace = <<"txt_importer">>

ReadPositions == {2, 4, 5, 6}
ZeroTexts == {"0.0", "0"}

RowHasZero(row) == \E p \in ReadPositions : Col(row, p) \in ZeroTexts
RowHasMissing(row) == \E p \in ReadPositions : Col(row, p) \in DefaultNaValues

\* The 0-based positions of the rows of the file that satisfy Keep
RowLabels(Keep(_)) == {k - 1 : k \in {j \in 1..Len(disk.rows) : Keep(disk.rows[j])}}

Labels(frame) == {frame.index[k] : k \in 1..Len(frame.index)}

\* C4 as stated: the rows output are exactly the rows with no 0.0 in a read
\* column.
C4_OnlyZeroRowsDropped ==
    TxtImported => Labels(df) = RowLabels(LAMBDA r : ~RowHasZero(r))

\* C4 as amended: the rows output are exactly the rows that have neither 0.0
\* nor a missing value (an empty cell or a default missing-value marker) in a
\* read column, in file order.
C4_ZeroOrMissingRowsDropped ==
    TxtImported =>
        df.index = Ascending(RowLabels(LAMBDA r : ~RowHasZero(r) /\ ~RowHasMissing(r)))

C4_Witness ==
    /\ TxtImported
    /\ Len(disk.rows) = 2
    /\ Col(disk.rows[1], 5) = "0.0" /\ Col(disk.rows[1], 6) = "50.2"
    /\ Col(disk.rows[2], 5) = "10.5"
    /\ df.index = <<1>>

ExampleRow == <<"x", "x", "01/02/2018", "x", "14:30:00", "10.5", "50.2">>

\* A date text written day/month/year
IsDayMonthYear(text) == Kind(text) = "date" /\ Fields(text)[2] <= 12

\* The rows with columns 0, 1 and 3 overwritten
Overwritten(rows, text) ==
    [k \in 1..Len(rows) |->
        [p \in 1..Len(rows[k]) |-> IF p - 1 \in ReadPositions THEN rows[k][p] ELSE text]]

NonBlank(comment) == {j \in 1..Len(comment) : comment[j] # ""}
TokenCount(comment) == Cardinality(NonBlank(comment))

\* The token at a 0-based index
TokenAt(comment, n) ==
    comment[CHOOSE j \in NonBlank(comment) :
                Cardinality({i \in NonBlank(comment) : i < j}) = n]

\* At least five tokens, the 3rd a date and the 5th a time of day
Parseable(comment) ==
    /\ TokenCount(comment) >= 5
    /\ Kind(TokenAt(comment, 2)) = "date"
    /\ Kind(TokenAt(comment, 4)) = "time"

\* The record the claim expects for a waypoint
ExpectedGpxRow(point) ==
    LET dmy == Fields(TokenAt(point.comment, 2))
        hms == Fields(TokenAt(point.comment, 4))
    IN  [lon |-> point.longitude, lat |-> point.latitude, alt |-> point.elevation,
         time |-> Timestamp(dmy[3], dmy[2], dmy[1], hms[1], hms[2], hms[3])]

GpxRun == pc # "start" /\ endswith(in_filename, DotGpx)

BadWaypoints == {k \in 1..Len(disk.waypoints) : ~Parseable(disk.waypoints[k].comment)}

\* C6: when every waypoint's comment is parseable, gpx_importer gives one
\* record per waypoint, in file order, with the waypoint's longitude,
\* latitude and elevation and the timestamp read from tokens 2 and 4.
C6_GpxRecords ==
    (GpxRun /\ BadWaypoints = {}) =>
        /\ fault.error = "none"
        /\ status \in {-1, 0}
        /\ pc = "gpx_loop" =>
              /\ Len(acc.data) <= Len(disk.waypoints)
              /\ \A k \in 1..Len(acc.data) :
                    acc.data[k] = ExpectedGpxRow(disk.waypoints[k])
        /\ pc = "imported" =>
              /\ Len(df.data) = Len(disk.waypoints)
              /\ df.index = [k \in 1..Len(disk.waypoints) |-> k - 1]
              /\ \A k \in 1..Len(df.data) :
                    df.data[k] = ExpectedGpxRow(disk.waypoints[k])

C6_Witness ==
    /\ pc = "imported" /\ trace = <<"gpx_importer">>
    /\ Len(df.data) = 2
    /\ disk.waypoints[1].comment # disk.waypoints[2].comment
    /\ disk.waypoints[1].longitude # disk.waypoints[2].longitude
    /\ df.data[1].time = df.data[2].time

\* C7: when some waypoint's comment has fewer than 5 tokens, or tokens 2 and
\* 4 that are not a date and a time, the run ends at the first such waypoint
\* with an uncaught exception: no table reaches main, nothing is classified
\* or rendered, and the status is neither 0 nor 2.
C7_GpxFault ==
    (GpxRun /\ BadWaypoints # {}) =>
        LET first == CHOOSE k \in BadWaypoints : \A j \in BadWaypoints : k <= j
        IN  /\ df = NoFrame /\ df_night = NoFrame /\ df_day = NoFrame
            /\ plots = <<>>
            /\ mapfile = <<>>
            /\ status \notin {0, 2}
            /\ pc \in {"main", "gpx_loop", "exit"}
            /\ pc = "gpx_loop" =>
                  /\ Len(acc.data) < first
                  /\ Len(acc.data) = first - 1 =>
                        /\ ENABLED GpxRaise
                        /\ ~ENABLED GpxAppend
                        /\ ~ENABLED GpxReturn
            /\ pc = "exit" =>
                  /\ fault.at = first
                  /\ fault.error \in {"IndexError", "ValueError"}
                  /\ TokenCount(disk.waypoints[first].comment) < 5 =>
                        fault.error = "IndexError"
                  /\ Len(acc.data) = first - 1
                  /\ status = 1

C7_Witness ==
    /\ pc = "exit"
    /\ fault = [error |-> "IndexError", at |-> 2]
    /\ Len(acc.data) = 1

\* C8 as stated: every record of the table txt_importer returns carries
\* exactly a longitude, a latitude and one combined timestamp.
C8_OnlyLonLatTimestamp ==
    TxtImported => \A k \in 1..Len(df.data) : DOMAIN df.data[k] = {"lon", "lat", "time"}

\* A txt run after main has made the timestamp the index
TxtIndexed ==
    /\ Len(trace) >= 2
    /\ trace[1] = "txt_importer"

\* C8 as amended: every record of the table txt_importer returns carries
\* exactly a longitude, a latitude, the combined timestamp (time) and the
\* parsed date (date, the midnight of that timestamp's day); no altitude and
\* no time-of-day column.  Once main has made the timestamp the index, the
\* columns left are date, lon and lat.
C8_TxtFields ==
    /\ TxtImported =>
          /\ df.columns = <<"date", "time", "lon", "lat">>
          /\ \A k \in 1..Len(df.data) :
                /\ DOMAIN df.data[k] = {"date", "time", "lon", "lat"}
                /\ df.data[k].date =
                      Timestamp(df.data[k].time.year, df.data[k].time.month,
                                df.data[k].time.day, 0, 0, 0)
    /\ TxtIndexed =>
          /\ df.columns = <<"date", "lon", "lat">>
          /\ \A k \in 1..Len(df.data) :
                /\ DOMAIN df.data[k] = {"date", "lon", "lat"}
                /\ df.index[k].year = df.data[k].date.year

C8_Witness ==
    /\ TxtImported
    /\ Len(df.data) = 2
    /\ df.data[1].date.day # df.data[2].date.day

Stages(importer) ==
    <<importer, "set_index", "between_time_night", "plot_night",
      "between_time_day", "plot_day", "show">>

IsPrefix(s, t) == Len(s) <= Len(t) /\ s = SubSeq(t, 1, Len(s))

\* C9: with a .gpx or .txt path the stages happen at most once each and in
\* the order importer (the one matching the suffix), set the index, classify
\* and plot night then day, write <temporary directory>/<file name>.html;
\* nothing is plotted before the importer has returned, and a run that
\* completes all stages ends with status 0.
C9_StageOrder ==
    (pc # "start" /\ ~Unsupported(in_filename)) =>
        LET importer == IF endswith(in_filename, DotGpx)
                        THEN "gpx_importer" ELSE "txt_importer"
        IN  /\ IsPrefix(trace, Stages(importer))
            /\ Len(plots) = (IF Len(trace) >= 4 THEN 1 ELSE 0)
                          + (IF Len(trace) >= 6 THEN 1 ELSE 0)
            /\ Len(plots) >= 1 => plots[1].fmt = "bs" /\ plots[1].x = Column(df_night, "lon")
            /\ Len(plots) >= 2 => plots[2].fmt = "rs" /\ plots[2].x = Column(df_day, "lon")
            /\ Len(trace) >= 2 => fault.error = "none" /\ Len(df.index) = Len(df.data)
            /\ mapfile # <<>> <=> Len(trace) = 7
            /\ mapfile # <<>> =>
                  /\ in_filename = NameAGpx =>
                        mapfile = <<"/", "t", "m", "p", "/", "a", ".", "g", "p", "x",
                                    ".", "h", "t", "m", "l">>
                  /\ in_filename = NameDirBTxt =>
                        mapfile = <<"/", "t", "m", "p", "/", "b", ".", "t", "x", "t",
                                    ".", "h", "t", "m", "l">>
            /\ pc = "shown" => ENABLED Finish
            /\ status = 0 <=> (pc = "exit" /\ trace = Stages(importer))

C9_Witness ==
    /\ pc = "exit" /\ status = 0
    /\ in_filename = NameDirBTxt
    /\ Len(df.data) = 2
    /\ Len(plots) = 2
    /\ mapfile # <<>>

\* C10: the dialog is shown iff no argument is given, and its answer goes to
\* main unchecked: the empty string of a cancelled dialog ends the run with
\* status 2 and nothing imported, classified or rendered.
C10_DialogIffNoArgument ==
    /\ pc = "start" => ~dialog_shown
    /\ pc # "start" =>
          /\ dialog_shown <=> Len(argv) = 1
          /\ in_filename = IF Len(argv) = 1 THEN pick ELSE argv[2]
          /\ (dialog_shown /\ pick = <<>>) =>
                /\ NothingDone
                /\ pc \in {"main", "exit"}
                /\ pc = "main" => ENABLED NoImporter
                /\ pc = "exit" => status = 2

C10_Witness ==
    pc = "exit" /\ dialog_shown /\ pick = <<>> /\ in_filename = <<>> /\ status = 2

====
